---- MODULE Spec2Model ----
(***************************************************************************)
(* The optimistic-concurrency version store of projectionkit, as           *)
(* implemented by postgresDriver over the table projection.occ.            *)
(*                                                                         *)
(* The table is a bag of rows (handler, resource, version).  Callers run   *)
(* UpdateVersion inside their own transaction: the statement executes      *)
(* against the committed table, its effect stays pending (and keeps the    *)
(* row locked) until the transaction commits or rolls back.  StoreVersion, *)
(* QueryVersion and DeleteResource run directly on the database handle,    *)
(* each as one auto-committed statement.                                   *)
(*                                                                         *)
(* The projection handler wrapper bundles the caller's business mutation   *)
(* with UpdateVersion in one transaction (SpecWrapper).  The options of    *)
(* the DynamoDB projection set the request decorators (SpecOptions).       *)
(***************************************************************************)
EXTENDS Naturals, FiniteSets, Sequences, Bags, TLC

\* ------------------------------------------------------------------ bounds

\* Concurrent callers, and the calls made in a run: MaxCalls when every
\* (handler, resource) pair is in play, MaxCallsOne on a single pair.
NumTx == 2
MaxCalls == 2
MaxCallsOne == 3

Handlers == {"h1", "h2"}
Resources == {"r1", "r2"}
Tokens == {"", "v1", "v2"}

Txs == 1..NumTx

\* ------------------------------------------------------------------ errors

UniqueViolation == "23505"
OtherCode == "40001"

Nil == [type |-> "nil", code |-> ""]
PqError(code) == [type |-> "pq", code |-> code]
PgError(code) == [type |-> "pgconn", code |-> code]
ErrBadConn == [type |-> "other", code |-> ""]

\* The error types of the two compatible database/sql drivers.
Drivers == {"pq", "pgconn"}

\* Statement failures that are not caused by the primary key, as the
\* transaction's statement may report them; a statement run directly on the
\* database handle reports the failure of the connection.
Faults == {PqError(OtherCode), PgError(OtherCode), ErrBadConn}
Outcomes == {Nil} \cup Faults
DbOutcomes == {Nil, ErrBadConn}

DupError(drv) == IF drv = "pq" THEN PqError(UniqueViolation) ELSE PgError(UniqueViolation)

isDupPqOnly(err) ==
    IF err.type = "pq" THEN err.code = UniqueViolation
    ELSE FALSE

isDupAnyDriverError(err) == err.type \in {"pq", "pgconn"}

isDup(err) ==
    IF err.type = "pq" THEN err.code = UniqueViolation
    ELSE IF err.type = "pgconn" THEN err.code = UniqueViolation
    ELSE FALSE

\* ---------------------------------------------------------------- options

\* The decorators of the DynamoDB requests, and the decorator functions a
\* caller passes; Unset is the nil function of a fresh decorators value.
DecoratorFields == {"decorateGetItem", "decoratePutItem", "decorateDeleteItem",
                    "decorateTransactWriteItems", "decorateCreateTableItem",
                    "decorateDeleteTableItem"}
Decs == {"d1", "d2"}
Unset == "nil"

NoDecorators == [f \in DecoratorFields |-> Unset]

\* The functions an options value holds: none, one with an empty body, one
\* that assigns a decorator field.
NilFunc == [body |-> "nil", field |-> "", dec |-> Unset]
EmptyFunc == [body |-> "empty", field |-> "", dec |-> Unset]
SetField(field, dec) == [body |-> "set", field |-> field, dec |-> dec]

CallFunc(f, d) == IF f.body = "set" THEN [d EXCEPT ![f.field] = f.dec] ELSE d

WithDecorateGetItem(dec) ==
    [applyOptionToAdaptorFunc |-> EmptyFunc,
     applyResourceRepositoryOptionFunc |-> SetField("decorateGetItem", dec),
     applyTableOptionFunc |-> NilFunc]

WithDecoratePutItem(dec) ==
    [applyOptionToAdaptorFunc |-> EmptyFunc,
     applyResourceRepositoryOptionFunc |-> SetField("decoratePutItem", dec),
     applyTableOptionFunc |-> NilFunc]

WithDecorateDeleteItem(dec) ==
    [applyOptionToAdaptorFunc |-> EmptyFunc,
     applyResourceRepositoryOptionFunc |-> SetField("decorateDeleteItem", dec),
     applyTableOptionFunc |-> NilFunc]

WithDecorateTransactWriteItems(dec) ==
    [applyOptionToAdaptorFunc |-> EmptyFunc,
     applyResourceRepositoryOptionFunc |-> SetField("decorateTransactWriteItems", dec),
     applyTableOptionFunc |-> NilFunc]

WithDecorateCreateTable(dec) ==
    [applyOptionToAdaptorFunc |-> NilFunc,
     applyResourceRepositoryOptionFunc |-> NilFunc,
     applyTableOptionFunc |-> SetField("decorateCreateTableItem", dec)]

WithDecorateDeleteTable(dec) ==
    [applyOptionToAdaptorFunc |-> NilFunc,
     applyResourceRepositoryOptionFunc |-> NilFunc,
     applyTableOptionFunc |-> SetField("decorateDeleteTableItem", dec)]

applyOptionToAdaptor(o, d) ==
    IF o.applyOptionToAdaptorFunc # NilFunc THEN CallFunc(o.applyOptionToAdaptorFunc, d) ELSE d

applyResourceRepositoryOption(o, d) ==
    IF o.applyResourceRepositoryOptionFunc # NilFunc
    THEN CallFunc(o.applyResourceRepositoryOptionFunc, d) ELSE d

applyTableOption(o, d) ==
    IF o.applyTableOptionFunc # NilFunc THEN CallFunc(o.applyTableOptionFunc, d) ELSE d

\* The six constructors by the request they decorate, and the three
\* interfaces an options value can be applied through.
Requests == {"GetItem", "PutItem", "DeleteItem", "TransactWriteItems",
             "CreateTable", "DeleteTable"}
Interfaces == {"HandlerOption", "ResourceRepositoryOption", "TableOption"}

WithDecorate(req, dec) ==
    CASE req = "GetItem" -> WithDecorateGetItem(dec)
      [] req = "PutItem" -> WithDecoratePutItem(dec)
      [] req = "DeleteItem" -> WithDecorateDeleteItem(dec)
      [] req = "TransactWriteItems" -> WithDecorateTransactWriteItems(dec)
      [] req = "CreateTable" -> WithDecorateCreateTable(dec)
      [] req = "DeleteTable" -> WithDecorateDeleteTable(dec)

ApplyThrough(iface, o, d) ==
    CASE iface = "HandlerOption" -> applyOptionToAdaptor(o, d)
      [] iface = "ResourceRepositoryOption" -> applyResourceRepositoryOption(o, d)
      [] iface = "TableOption" -> applyTableOption(o, d)

\* ------------------------------------------------------------------ table

\* occ is the committed table, tx the callers' transactions; data is the
\* caller's business data, the mutations committed so far in their order;
\* decorators is one decorators value and options the options applied to it.
VARIABLES occ, tx, calls, adm, appliedEv, armed, data, decorators, options

vars == <<occ, tx, calls, adm, appliedEv, armed, data, decorators, options>>

optVars == <<decorators, options>>

Row(h, r, v) == [handler |-> h, resource |-> r, version |-> v]

\* The committed rows of (h, r), as a set.
RowsOf(tbl, h, r) == {x \in BagToSet(tbl) : x.handler = h /\ x.resource = r}

\* The part of the bag made of the rows in S, with their multiplicity.
SubBagOf(tbl, S) == [x \in S |-> tbl[x]]

\* Number of rows of tbl that are in S.
CountOf(tbl, S) == BagCardinality(SubBagOf(tbl, S))

\* The same rows with the version column set to v.
RECURSIVE SetVersion(_, _, _)
SetVersion(tbl, S, v) ==
    IF S = {} THEN EmptyBag
    ELSE LET x == CHOOSE y \in S : TRUE
             one == [z \in {Row(x.handler, x.resource, v)} |-> tbl[x]]
         IN one (+) SetVersion(tbl, S \ {x}, v)

\* ------------------------------------------------------------------ statements
\* Each statement is evaluated against the committed table.  Its result is
\* the error reported by the driver, the number of rows affected and the
\* rows it adds and removes.

StmtResult(err, count, add, del) == [err |-> err, count |-> count, add |-> add, del |-> del]

Failed(err) == StmtResult(err, 0, EmptyBag, EmptyBag)

PrimaryKeyNone(tbl, h, r) == TRUE

\* PRIMARY KEY (handler, resource): no row of (h, r) is in the table yet.
PrimaryKeyFree(tbl, h, r) == RowsOf(tbl, h, r) = {}

UpsertDoNothing(tbl, h, r, v, fault) ==
    IF fault # Nil THEN [err |-> fault, count |-> 0, add |-> EmptyBag, del |-> EmptyBag]
    ELSE IF {x \in BagToSet(tbl) : x.handler = h /\ x.resource = r} = {}
    THEN [err |-> Nil, count |-> 1,
          add |-> SetToBag({[handler |-> h, resource |-> r, version |-> v]}), del |-> EmptyBag]
    ELSE [err |-> Nil, count |-> 0, add |-> EmptyBag, del |-> EmptyBag]

\* INSERT ... ON CONFLICT (handler, resource) DO UPDATE SET version = excluded.version
Upsert(tbl, h, r, v, fault) ==
    IF fault # Nil THEN Failed(fault)
    ELSE IF PrimaryKeyFree(tbl, h, r) THEN StmtResult(Nil, 1, SetToBag({Row(h, r, v)}), EmptyBag)
    ELSE LET m == RowsOf(tbl, h, r)
         IN StmtResult(Nil, CountOf(tbl, m), SetVersion(tbl, m, v), SubBagOf(tbl, m))

InsertOrUpdate(tbl, h, r, v, fault, drv) == Upsert(tbl, h, r, v, fault)

\* INSERT INTO projection.occ (handler, resource, version) VALUES (h, r, v)
Insert(tbl, h, r, v, fault, drv) ==
    IF fault # Nil THEN Failed(fault)
    ELSE IF ~PrimaryKeyFree(tbl, h, r) THEN Failed(DupError(drv))
    ELSE StmtResult(Nil, 1, SetToBag({Row(h, r, v)}), EmptyBag)

MatchAnyHandler(tbl, h, r, c) ==
    {x \in BagToSet(tbl) : x.resource = r /\ x.version = c}

MatchAnyVersion(tbl, h, r, c) == RowsOf(tbl, h, r)

\* WHERE handler = h AND resource = r AND version = c
Match(tbl, h, r, c) == {x \in RowsOf(tbl, h, r) : x.version = c}

DeleteUnconditional(tbl, h, r, c, fault) ==
    IF fault # Nil THEN Failed(fault)
    ELSE LET m == RowsOf(tbl, h, r)
         IN StmtResult(Nil, CountOf(tbl, m), EmptyBag, SubBagOf(tbl, m))

DeleteOnEmpty(tbl, h, r, c, fault) ==
    IF fault # Nil THEN Failed(fault)
    ELSE LET m == Match(tbl, h, r, "")
         IN StmtResult(Nil, CountOf(tbl, m), EmptyBag, SubBagOf(tbl, m))

\* DELETE FROM projection.occ WHERE handler = h AND resource = r AND version = c
Delete(tbl, h, r, c, fault) ==
    IF fault # Nil THEN Failed(fault)
    ELSE LET m == Match(tbl, h, r, c)
         IN StmtResult(Nil, CountOf(tbl, m), EmptyBag, SubBagOf(tbl, m))

UpdateUnconditional(tbl, h, r, c, n, fault) ==
    IF fault # Nil THEN Failed(fault)
    ELSE LET m == RowsOf(tbl, h, r)
         IN StmtResult(Nil, CountOf(tbl, m), SetVersion(tbl, m, n), SubBagOf(tbl, m))

UpdateOrInsert(tbl, h, r, c, n, fault) ==
    IF fault # Nil THEN [err |-> fault, count |-> 0, add |-> EmptyBag, del |-> EmptyBag]
    ELSE LET m == {x \in BagToSet(tbl) : x.handler = h /\ x.resource = r /\ x.version = c}
             new == [handler |-> h, resource |-> r, version |-> n]
         IN IF {x \in BagToSet(tbl) : x.handler = h /\ x.resource = r} = {}
            THEN [err |-> Nil, count |-> 1, add |-> SetToBag({new}), del |-> EmptyBag]
            ELSE [err |-> Nil, count |-> Cardinality(m),
                  add |-> IF m = {} THEN EmptyBag ELSE SetToBag({new}),
                  del |-> [x \in m |-> tbl[x]]]

UpdateKeepsVersion(tbl, h, r, c, n, fault) ==
    IF fault # Nil THEN Failed(fault)
    ELSE LET m == Match(tbl, h, r, c)
         IN StmtResult(Nil, CountOf(tbl, m), SetVersion(tbl, m, c), SubBagOf(tbl, m))

\* UPDATE projection.occ SET version = n WHERE handler = h AND resource = r AND version = c
Update(tbl, h, r, c, n, fault) ==
    IF fault # Nil THEN Failed(fault)
    ELSE LET m == Match(tbl, h, r, c)
         IN StmtResult(Nil, CountOf(tbl, m), SetVersion(tbl, m, n), SubBagOf(tbl, m))

DeleteAllEmptyOnly(tbl, h, r, fault) ==
    IF fault # Nil THEN [err |-> fault, count |-> 0, add |-> EmptyBag, del |-> EmptyBag]
    ELSE LET m == {x \in BagToSet(tbl) : x.handler = h /\ x.resource = r /\ x.version = ""}
         IN [err |-> Nil, count |-> Cardinality(m), add |-> EmptyBag,
             del |-> [x \in m |-> tbl[x]]]

\* DELETE FROM projection.occ WHERE handler = h AND resource = r
DeleteAll(tbl, h, r, fault) ==
    IF fault # Nil THEN Failed(fault)
    ELSE LET m == RowsOf(tbl, h, r)
         IN StmtResult(Nil, CountOf(tbl, m), EmptyBag, SubBagOf(tbl, m))

\* The table once a statement's effect is committed.
Apply(tbl, eff) == (tbl (-) eff.del) (+) eff.add

\* ------------------------------------------------------------------ driver

Ret(applied, err, res) == [applied |-> applied, err |-> err, add |-> res.add, del |-> res.del]

\* postgresDriver.UpdateVersion: the (applied, error) pair it returns and the
\* effect its statement leaves pending in the caller's transaction.
UpdateVersion(tbl, h, r, c, n, fault, drv) ==
    IF c = ""
    THEN LET res == Insert(tbl, h, r, n, fault, drv)
         IN IF isDup(res.err) THEN Ret(FALSE, Nil, res)
            ELSE Ret(TRUE, res.err, res)
    ELSE LET res == IF n = "" THEN Delete(tbl, h, r, c, fault)
                    ELSE Update(tbl, h, r, c, n, fault)
         IN IF res.err # Nil THEN Ret(FALSE, res.err, res)
            ELSE Ret(res.count # 0, Nil, res)

\* postgresDriver.QueryVersion: nil (the empty token) when no row is found,
\* otherwise the version column of the row.
QueryVersion(tbl, h, r) ==
    IF RowsOf(tbl, h, r) = {} THEN ""
    ELSE (CHOOSE x \in RowsOf(tbl, h, r) : TRUE).version

\* ------------------------------------------------------------------ state

Idle == [pc |-> "idle", h |-> "", r |-> "", c |-> "", n |-> "",
         applied |-> FALSE, err |-> Nil, add |-> EmptyBag, del |-> EmptyBag,
         mut |-> <<>>]

NoAdm == [op |-> "none", h |-> "", r |-> "", v |-> "", err |-> Nil]

Event(h, r, c, n) == [h |-> h, r |-> r, c |-> c, n |-> n]

\* Transaction u holds an uncommitted change.
Pending(u) == tx[u].pc = "returned" /\ (tx[u].add # EmptyBag \/ tx[u].del # EmptyBag)

\* Another transaction than t holds an uncommitted change of a row of (h, r):
\* an INSERT of that key waits for it.
KeyLocked(t, h, r) ==
    \E u \in Txs \ {t} :
        /\ Pending(u)
        /\ \E x \in BagToSet(tx[u].add) \cup BagToSet(tx[u].del) :
               x.handler = h /\ x.resource = r

\* Another transaction than t holds the lock of committed row x: an UPDATE or
\* DELETE that selects x waits for it.
RowLocked(t, x) == \E u \in Txs \ {t} : Pending(u) /\ BagIn(x, tx[u].del)

\* The statement of UpdateVersion(h, r, c, n) has to wait.
Blocked(t, h, r, c) ==
    IF c = "" THEN KeyLocked(t, h, r)
    ELSE \E x \in Match(occ, h, r, c) : RowLocked(t, x)

\* History: appliedEv counts, per event, the committed calls that applied it;
\* armed holds the applied events (current # next) since whose application the
\* stored version of their resource has not been their current token again.

\* The events that stay armed when the stored version of (h, r) becomes v.
Rearm(S, h, r, v) == {e \in S : ~(e.h = h /\ e.r = r /\ e.c = v)}

\* The transaction record once the transaction has ended: the slot is free
\* for the caller's next call, or keeps what the call returned.
Ended(t, pc, reuse) ==
    IF reuse THEN Idle
    ELSE [tx[t] EXCEPT !.pc = pc, !.add = EmptyBag, !.del = EmptyBag]

Init ==
    /\ occ = EmptyBag
    /\ tx = [t \in Txs |-> Idle]
    /\ calls = 0
    /\ adm = NoAdm
    /\ appliedEv = EmptyBag
    /\ armed = {}
    /\ data = <<>>
    /\ decorators = NoDecorators
    /\ options = <<>>

\* ------------------------------------------------------------------ actions

\* A caller opens a transaction and calls UpdateVersion(h, r, c, n) in it.
\* Callers are interchangeable: the call takes the first free slot.
Begin(t, h, r, c, n, limit) ==
    /\ tx[t].pc = "idle"
    /\ \A u \in Txs : u < t => tx[u].pc # "idle"
    /\ calls < limit
    /\ tx' = [tx EXCEPT ![t] = [Idle EXCEPT !.pc = "begun", !.h = h, !.r = r, !.c = c, !.n = n]]
    /\ calls' = calls + 1
    /\ UNCHANGED <<occ, adm, appliedEv, armed, data, optVars>>

\* The statement of UpdateVersion executes and the call returns.
Exec(t, fault, drv) ==
    /\ tx[t].pc = "begun"
    /\ ~Blocked(t, tx[t].h, tx[t].r, tx[t].c)
    /\ LET ret == UpdateVersion(occ, tx[t].h, tx[t].r, tx[t].c, tx[t].n, fault, drv)
       IN tx' = [tx EXCEPT ![t] = [@ EXCEPT !.pc = "returned", !.applied = ret.applied,
                                            !.err = ret.err, !.add = ret.add, !.del = ret.del]]
    /\ UNCHANGED <<occ, calls, adm, appliedEv, armed, data, optVars>>

\* The caller commits: the pending change becomes the committed table, and
\* the business mutation the caller ran in the transaction becomes durable.
Commit(t, reuse) ==
    /\ tx[t].pc = "returned"
    /\ tx[t].err = Nil
    /\ occ' = Apply(occ, tx[t])
    /\ tx' = [tx EXCEPT ![t] = Ended(t, "committed", reuse)]
    /\ LET e == Event(tx[t].h, tx[t].r, tx[t].c, tx[t].n)
       IN IF tx[t].applied
          THEN /\ appliedEv' = appliedEv (+) SetToBag({e})
               /\ armed' = Rearm(armed, e.h, e.r, QueryVersion(occ', e.h, e.r))
                               \cup (IF e.c # e.n THEN {e} ELSE {})
          ELSE UNCHANGED <<appliedEv, armed>>
    /\ data' = data \o tx[t].mut
    /\ UNCHANGED <<calls, adm, optVars>>

\* The caller rolls back: the pending change is dropped.
Rollback(t, reuse) ==
    /\ tx[t].pc = "returned"
    /\ tx' = [tx EXCEPT ![t] = Ended(t, "aborted", reuse)]
    /\ UNCHANGED <<occ, calls, adm, appliedEv, armed, data, optVars>>

\* postgresDriver.StoreVersion(h, r, v), auto-committed.
StoreVersion(h, r, v, fault, limit) ==
    /\ calls < limit
    /\ ~KeyLocked(0, h, r)
    /\ LET res == Upsert(occ, h, r, v, fault)
       IN /\ occ' = IF res.err = Nil THEN Apply(occ, res) ELSE occ
          /\ adm' = [op |-> "StoreVersion", h |-> h, r |-> r, v |-> v, err |-> res.err]
          /\ armed' = IF res.err = Nil THEN Rearm(armed, h, r, v) ELSE armed
    /\ calls' = calls + 1
    /\ UNCHANGED <<tx, appliedEv, data, optVars>>

\* postgresDriver.DeleteResource(h, r), auto-committed.
DeleteResource(h, r, fault, limit) ==
    /\ calls < limit
    /\ \A x \in RowsOf(occ, h, r) : ~RowLocked(0, x)
    /\ LET res == DeleteAll(occ, h, r, fault)
       IN /\ occ' = IF res.err = Nil THEN Apply(occ, res) ELSE occ
          /\ adm' = [op |-> "DeleteResource", h |-> h, r |-> r, v |-> "", err |-> res.err]
          /\ armed' = IF res.err = Nil THEN Rearm(armed, h, r, "") ELSE armed
    /\ calls' = calls + 1
    /\ UNCHANGED <<tx, appliedEv, data, optVars>>

\* postgresDriver.QueryVersion(h, r): reads the committed table.
Query(h, r, fault, limit) ==
    /\ calls < limit
    /\ adm' = [op |-> "QueryVersion", h |-> h, r |-> r,
               v |-> IF fault = Nil THEN QueryVersion(occ, h, r) ELSE "", err |-> fault]
    /\ calls' = calls + 1
    /\ UNCHANGED <<occ, tx, appliedEv, armed, data, optVars>>

\* The calls on the pairs of HS \X RS with the tokens TS, at most limit of
\* them, the statement of a transaction ending in one of the outcomes FS.
NextOn(HS, RS, TS, FS, limit) ==
    \/ \E t \in Txs, h \in HS, r \in RS, c \in TS, n \in TS : Begin(t, h, r, c, n, limit)
    \/ \E t \in Txs, fault \in FS, drv \in Drivers : Exec(t, fault, drv)
    \/ \E t \in Txs : Commit(t, TRUE)
    \/ \E t \in Txs : Rollback(t, TRUE)
    \/ \E h \in HS, r \in RS, v \in TS, fault \in DbOutcomes : StoreVersion(h, r, v, fault, limit)
    \/ \E h \in HS, r \in RS, fault \in DbOutcomes : DeleteResource(h, r, fault, limit)
    \/ \E h \in HS, r \in RS, fault \in DbOutcomes : Query(h, r, fault, limit)

\* One (handler, resource) pair and every token.
Next == NextOn({"h1"}, {"r1"}, Tokens, DbOutcomes, MaxCallsOne)

Spec == Init /\ [][Next]_vars

\* Every (handler, resource) pair, shorter runs, the empty token and one other.
NextPairs == NextOn(Handlers, Resources, {"", "v1"}, DbOutcomes, MaxCalls)

SpecPairs == Init /\ [][NextPairs]_vars

\* N callers race on one pair: the table holds what an administrative
\* StoreVersion or DeleteResource left (recorded in adm), every caller has
\* called UpdateVersion with the same current token and its own next token,
\* and keeps what its call returned.
InitRace ==
    \E h \in {"h1"}, r \in {"r1"}, c \in Tokens :
        /\ \/ \E v \in Tokens :
                 /\ occ = SetToBag({Row(h, r, v)})
                 /\ adm = [op |-> "StoreVersion", h |-> h, r |-> r, v |-> v, err |-> Nil]
           \/ /\ occ = EmptyBag
              /\ adm = [op |-> "DeleteResource", h |-> h, r |-> r, v |-> "", err |-> Nil]
        /\ tx \in {f \in [Txs -> {[Idle EXCEPT !.pc = "begun", !.h = h, !.r = r, !.c = c, !.n = n] : n \in Tokens}] : TRUE}
        /\ calls = 0
        /\ appliedEv = EmptyBag
        /\ armed = {}
        /\ data = <<>>
        /\ decorators = NoDecorators
        /\ options = <<>>

NextRace ==
    \/ \E t \in Txs, fault \in Outcomes, drv \in Drivers : Exec(t, fault, drv)
    \/ \E t \in Txs : Commit(t, FALSE)
    \/ \E t \in Txs : Rollback(t, FALSE)

SpecRace == InitRace /\ [][NextRace]_vars

\* --------------------------------------------------------------- wrapper

\* The projection handler wrapper receives an event for (h, r): it queries
\* the current version, the caller's logic computes the mutation and the next
\* version n, and the wrapper opens the transaction that holds the mutation
\* and the call UpdateVersion(h, r, current, n).
HandleEvent(t, h, r, n, limit) ==
    /\ tx[t].pc = "idle"
    /\ \A u \in Txs : u < t => tx[u].pc # "idle"
    /\ calls < limit
    /\ LET c == QueryVersion(occ, h, r)
       IN tx' = [tx EXCEPT ![t] = [Idle EXCEPT !.pc = "begun", !.h = h, !.r = r, !.c = c,
                                               !.n = n, !.mut = <<Event(h, r, c, n)>>]]
    /\ calls' = calls + 1
    /\ UNCHANGED <<occ, adm, appliedEv, armed, data, optVars>>

\* The wrapper reports "applied": the swap was applied without error, the
\* atomic unit is committed.
ReportApplied(t) == tx[t].applied /\ Commit(t, FALSE)

\* The wrapper reports "not applied", or propagates the error: the atomic
\* unit is dropped.
ReportNotApplied(t) == ~(tx[t].applied /\ tx[t].err = Nil) /\ Rollback(t, FALSE)

NextWrapper ==
    \/ \E t \in Txs, n \in Tokens : HandleEvent(t, "h1", "r1", n, MaxCalls)
    \/ \E t \in Txs, fault \in Outcomes, drv \in Drivers : Exec(t, fault, drv)
    \/ \E t \in Txs : ReportApplied(t)
    \/ \E t \in Txs : ReportNotApplied(t)

SpecWrapper == Init /\ [][NextWrapper]_vars

\* ------------------------------------------------------- applying options

\* At most MaxOptions options are applied to the decorators value.
MaxOptions == 2

\* The option WithDecorate<req>(dec) is applied through one of the three
\* interfaces the options type implements.
ApplyOption(iface, req, dec) ==
    /\ Len(options) < MaxOptions
    /\ decorators' = ApplyThrough(iface, WithDecorate(req, dec), decorators)
    /\ options' = Append(options, [iface |-> iface, req |-> req, dec |-> dec])
    /\ UNCHANGED <<occ, tx, calls, adm, appliedEv, armed, data>>

NextOptions == \E iface \in Interfaces, req \in Requests, dec \in Decs : ApplyOption(iface, req, dec)

SpecOptions == Init /\ [][NextOptions]_vars

\* ------------------------------------------------------------------ races

\* Every caller of the race has its result and has ended its transaction;
\* no statement met a failure of the backend, and every call that returned
\* without error was committed.
RaceRan ==
    \A t \in Txs :
        /\ tx[t].pc \in {"committed", "aborted"}
        /\ tx[t].err \notin Faults
        /\ tx[t].err = Nil => tx[t].pc = "committed"

\* The version QueryVersion returned for the raced pair before the race.
RaceStored == IF adm.op = "StoreVersion" THEN adm.v ELSE ""

Winners == {t \in Txs : tx[t].applied}

\* C1: when the stored version of R equals current and N callers each run
\* the same UpdateVersion(h, R, current, next) in their own transaction,
\* exactly one call returns applied = true and the others applied = false,
\* whatever the interleaving, current = next included.
C1_ExactlyOneOfIdenticalSwaps ==
    (/\ RaceRan
     /\ \A t \in Txs : tx[t].c = RaceStored /\ tx[t].n = tx[1].n)
    => Cardinality(Winners) = 1

\* C2: first-write race.  When the callers run UpdateVersion(h, R, "", v_t)
\* against a pair without record, exactly one call returns (true, nil), every
\* other call returns (false, nil) -- the duplicate-key error of a losing
\* INSERT is never returned -- and the record left holds the winner's next.
C2_FirstWriteRace ==
    (/\ \A t \in Txs : tx[t].pc \in {"committed", "aborted"} /\ tx[t].err \notin Faults
     /\ \A t \in Txs : tx[t].err = Nil => tx[t].pc = "committed"
     /\ adm.op = "DeleteResource"
     /\ \A t \in Txs : tx[t].c = "")
    => \E w \in Txs :
           /\ tx[w].applied
           /\ \A t \in Txs : tx[t].err = Nil
           /\ \A t \in Txs \ {w} : ~tx[t].applied
           /\ occ = SetToBag({Row(tx[w].h, tx[w].r, tx[w].n)})
           /\ QueryVersion(occ, tx[w].h, tx[w].r) = tx[w].n

\* A first-write race with two different next tokens has been run: one call
\* won, another lost to the duplicate key.
C2_Witness ==
    /\ RaceRan
    /\ adm.op = "DeleteResource"
    /\ \A t \in Txs : tx[t].c = ""
    /\ \E w \in Txs, l \in Txs :
           /\ tx[w].applied /\ ~tx[l].applied
           /\ tx[w].n # tx[l].n
           /\ occ = SetToBag({Row(tx[w].h, tx[w].r, tx[w].n)})

\* ------------------------------------------------------------------ steps

\* The event of the call in flight in slot t.
EventOf(t) == Event(tx[t].h, tx[t].r, tx[t].c, tx[t].n)

\* This step is the execution of the statement of t's call.
ExecStep(t) == tx[t].pc = "begun" /\ tx'[t].pc = "returned"

\* ... and the backend did not fail the statement.
Executed(t) == ExecStep(t) /\ tx'[t].err \notin Faults

\* This step commits t's applied call.
Committed(t) ==
    /\ tx[t].pc = "returned" /\ tx[t].applied /\ tx[t].err = Nil
    /\ appliedEv' = appliedEv (+) SetToBag({EventOf(t)})

\* The call of t left the table as it was and holds no pending change.
Untouched(t) == occ' = occ /\ tx'[t].add = EmptyBag /\ tx'[t].del = EmptyBag

\* C3: at most once.  No event (current, next) of a resource is applied by
\* more than one committed call, whatever other events, resets included, are
\* delivered in between.
C3_AtMostOnce == \A e \in BagToSet(appliedEv) : CopiesIn(e, appliedEv) <= 1

\* C3, amended: an applied event whose next differs from its current is not
\* applied again for as long as the stored version of its resource has not
\* returned to its current token.
C3_AtMostOnceUntilCurrentReturns ==
    \A t \in Txs :
        (tx[t].pc = "returned" /\ tx[t].applied /\ tx[t].err = Nil) => EventOf(t) \notin armed

\* An applied event was delivered again and its call returned (false, nil).
C3_Witness ==
    \E t \in Txs :
        /\ tx[t].pc = "returned" /\ ~tx[t].applied /\ tx[t].err = Nil
        /\ EventOf(t) \in armed
        /\ BagIn(EventOf(t), appliedEv)

\* C4: idempotence.  A call UpdateVersion(h, R, current, next) made when the
\* stored version already is next returns (false, nil) and leaves the record
\* unchanged, for every pair (current, next).
C4_Idempotent ==
    [][\A t \in Txs :
          (Executed(t) /\ QueryVersion(occ, tx[t].h, tx[t].r) = tx[t].n)
          => (~tx'[t].applied /\ tx'[t].err = Nil /\ Untouched(t))]_vars

\* C4, amended: the same for every pair with current # next.
C4_IdempotentWhenNextDiffers ==
    [][\A t \in Txs :
          (/\ Executed(t)
           /\ tx[t].c # tx[t].n
           /\ QueryVersion(occ, tx[t].h, tx[t].r) = tx[t].n)
          => (~tx'[t].applied /\ tx'[t].err = Nil /\ Untouched(t))]_vars

\* An event applied before was run again on a resource that is at its next
\* token, and returned (false, nil).
C4_Witness ==
    \E t \in Txs :
        /\ tx[t].pc = "returned" /\ ~tx[t].applied /\ tx[t].err = Nil
        /\ tx[t].c # tx[t].n
        /\ BagIn(EventOf(t), appliedEv)
        /\ QueryVersion(occ, tx[t].h, tx[t].r) = tx[t].n

\* C5: round trip.  Right after an applied UpdateVersion(h, R, current, next)
\* is committed, QueryVersion(h, R) returns next, the empty token when next
\* is empty.
C5_RoundTrip ==
    [][\A t \in Txs :
          Committed(t) => QueryVersion(occ', tx[t].h, tx[t].r) = tx[t].n]_vars

\* An applied swap of a record from one token to another is committed and
\* the query returns its next token.
C5_Witness ==
    \E e \in BagToSet(appliedEv) :
        /\ e.c # "" /\ e.n # "" /\ e.c # e.n
        /\ QueryVersion(occ, e.h, e.r) = e.n

\* C6: deletion.  UpdateVersion(h, R, current, "") with a non-empty current
\* is applied, and removes the record, exactly when the stored version is
\* current; QueryVersion then returns the empty token.  Otherwise it returns
\* applied = false and the record is unchanged.
C6_Deletion ==
    [][\A t \in Txs :
          /\ (Executed(t) /\ tx[t].c # "" /\ tx[t].n = "")
             => /\ tx'[t].err = Nil
                /\ tx'[t].applied <=> (/\ RowsOf(occ, tx[t].h, tx[t].r) # {}
                                       /\ QueryVersion(occ, tx[t].h, tx[t].r) = tx[t].c)
                /\ tx'[t].applied => RowsOf(Apply(occ, tx'[t]), tx[t].h, tx[t].r) = {}
                /\ ~tx'[t].applied => Untouched(t)
          /\ (Committed(t) /\ tx[t].c # "" /\ tx[t].n = "")
             => /\ RowsOf(occ', tx[t].h, tx[t].r) = {}
                /\ QueryVersion(occ', tx[t].h, tx[t].r) = ""]_vars

\* A deleting swap was applied and committed: the record is gone.
C6_Witness ==
    \E e \in BagToSet(appliedEv) :
        /\ e.c # "" /\ e.n = ""
        /\ RowsOf(occ, e.h, e.r) = {}
        /\ QueryVersion(occ, e.h, e.r) = ""

\* C7: absence and the empty token are one state.  No stored record holds an
\* empty version token, whatever calls were made, calls with an empty next
\* or version token included.
C7_NoEmptyVersionRecord == \A x \in BagToSet(occ) : x.version # ""

\* C8: UpdateVersion with an empty current is applied only if the pair has no
\* record; when it has one, the call returns (false, nil) and the record is
\* unchanged, whatever next is.
C8_EmptyCurrentNeedsNoRecord ==
    [][\A t \in Txs :
          (Executed(t) /\ tx[t].c = "")
          => /\ tx'[t].applied => RowsOf(occ, tx[t].h, tx[t].r) = {}
             /\ RowsOf(occ, tx[t].h, tx[t].r) # {}
                => (~tx'[t].applied /\ tx'[t].err = Nil /\ Untouched(t))]_vars

\* A call with an empty current and another next than the stored version met
\* an existing record and returned (false, nil).
C8_Witness ==
    \E t \in Txs :
        /\ tx[t].pc = "returned" /\ ~tx[t].applied /\ tx[t].err = Nil
        /\ tx[t].c = ""
        /\ RowsOf(occ, tx[t].h, tx[t].r) # {}
        /\ QueryVersion(occ, tx[t].h, tx[t].r) # tx[t].n

\* C9: only matching swaps change a record.  The statement of UpdateVersion
\* leaves a change pending only if the stored version (the empty token when
\* there is no record) equals current; a stale swap returns applied = false
\* and changes nothing; and a commit changes the record of the pair only
\* from current to next.
C9_OnlyMatchingSwaps ==
    [][\A t \in Txs :
          /\ ExecStep(t)
             => /\ (tx'[t].add # EmptyBag \/ tx'[t].del # EmptyBag)
                   => QueryVersion(occ, tx[t].h, tx[t].r) = tx[t].c
                /\ (tx'[t].err \notin Faults /\ QueryVersion(occ, tx[t].h, tx[t].r) # tx[t].c)
                   => (~tx'[t].applied /\ tx'[t].err = Nil /\ Untouched(t))
          /\ (/\ tx[t].pc = "returned" /\ tx'[t].pc # "returned"
              /\ RowsOf(occ', tx[t].h, tx[t].r) # RowsOf(occ, tx[t].h, tx[t].r))
             => /\ tx[t].applied
                /\ QueryVersion(occ, tx[t].h, tx[t].r) = tx[t].c
                /\ QueryVersion(occ', tx[t].h, tx[t].r) = tx[t].n]_vars

\* A stale swap between two non-empty tokens met a record holding another
\* version and returned (false, nil).
C9_Witness ==
    \E t \in Txs :
        /\ tx[t].pc = "returned" /\ ~tx[t].applied /\ tx[t].err = Nil
        /\ tx[t].c # "" /\ tx[t].n # ""
        /\ RowsOf(occ, tx[t].h, tx[t].r) # {}
        /\ QueryVersion(occ, tx[t].h, tx[t].r) # tx[t].c

\* C10: whatever calls were made, the table holds at most one record per
\* (handler, resource) pair.
C10_OneRecordPerPair ==
    \A h \in Handlers, r \in Resources : CountOf(occ, RowsOf(occ, h, r)) <= 1

\* An INSERT met the record of its pair and was refused: the pair still has
\* one record.
C10_Witness ==
    \E t \in Txs :
        /\ tx[t].pc = "returned" /\ tx[t].c = "" /\ ~tx[t].applied
        /\ CountOf(occ, RowsOf(occ, tx[t].h, tx[t].r)) = 1

\* ---------------------------------------------------------------- wrapper

\* The wrapper ends the handling of the event of transaction t in this step.
Reported(t) == tx[t].pc = "returned" /\ tx'[t].pc \in {"committed", "aborted"}

\* The version the business data reflects: the next version of the last
\* mutation made to it, none before the first one.
ReflectedVersion == IF data = <<>> THEN "" ELSE data[Len(data)].n

\* C11: for every event the wrapper processes, the business data changes
\* exactly when the version swap is applied: the report "applied" appends
\* the event's mutation and moves the stored version from current to next
\* in the same step; a report "not applied" or an error leaves both the data
\* and the record as they were; no other step changes either, so no reader
\* finds the data and the stored version out of step.
C11_AtomicWithMutation ==
    [][ /\ \A t \in Txs :
              Reported(t) =>
                  IF tx[t].applied /\ tx[t].err = Nil
                  THEN /\ data' = Append(data, EventOf(t))
                       /\ QueryVersion(occ, tx[t].h, tx[t].r) = tx[t].c
                       /\ QueryVersion(occ', tx[t].h, tx[t].r) = tx[t].n
                  ELSE data' = data /\ occ' = occ
        /\ (\A t \in Txs : ~Reported(t)) => (data' = data /\ occ' = occ)
        /\ QueryVersion(occ', "h1", "r1") = ReflectedVersion' ]_vars

\* One event was applied and committed with its mutation, a second delivery
\* was reported as not applied and a mutation of its own was dropped.
C11_Witness ==
    \E t \in Txs, u \in Txs :
        /\ tx[t].pc = "committed" /\ tx[t].applied
        /\ tx[u].pc = "aborted" /\ ~tx[u].applied /\ tx[u].err = Nil /\ tx[u].mut # <<>>
        /\ data = tx[t].mut
        /\ QueryVersion(occ, "h1", "r1") = tx[t].n

\* ----------------------------------------------------------------- errors

\* C12: when the statement of UpdateVersion fails with an error that is not
\* a unique violation of pq or pgconn, UpdateVersion returns that error and
\* never (false, nil); the only error turned into (false, nil) is the unique
\* violation of an INSERT that meets an existing record, and a (false, nil)
\* of the other statements means that no row matched.
C12_OnlyUniqueViolationIsConflict ==
    [][ \A t \in Txs :
            ExecStep(t) =>
                /\ \A fault \in Faults, drv \in Drivers :
                       LET ret == UpdateVersion(occ, tx[t].h, tx[t].r, tx[t].c, tx[t].n, fault, drv)
                       IN ret.err = fault /\ ret.add = EmptyBag /\ ret.del = EmptyBag
                /\ tx'[t].err \in Outcomes
                /\ (tx'[t].err = Nil /\ ~tx'[t].applied) =>
                       IF tx[t].c = "" THEN RowsOf(occ, tx[t].h, tx[t].r) # {}
                       ELSE Match(occ, tx[t].h, tx[t].r, tx[t].c) = {} ]_vars

\* One INSERT failed with an error of pgconn that is no unique violation and
\* the call returned it; another INSERT met the record and returned
\* (false, nil).
C12_Witness ==
    \E t \in Txs, u \in Txs :
        /\ tx[t].pc = "returned" /\ tx[t].c = "" /\ tx[t].err = PgError(OtherCode)
        /\ tx[u].pc = "returned" /\ tx[u].c = "" /\ tx[u].err = Nil /\ ~tx[u].applied

\* -------------------------------------------------- administrative calls

\* This step is one administrative call op; adm' holds its arguments and
\* what it returned.
AdminStep(op) == calls' = calls + 1 /\ tx' = tx /\ adm'.op = op

\* C13: DeleteResource(h, r) is unconditional.  Whatever record the pair
\* holds, once it returns without error the pair has no record, QueryVersion
\* returns the empty token, and the UpdateVersion(h, r, "", v) that follows
\* is applied and stores v.
C13_DeleteResourceUnconditional ==
    [][ (AdminStep("DeleteResource") /\ adm'.err = Nil) =>
            /\ RowsOf(occ', adm'.h, adm'.r) = {}
            /\ QueryVersion(occ', adm'.h, adm'.r) = ""
            /\ \A v \in Tokens, drv \in Drivers :
                   LET ret == UpdateVersion(occ', adm'.h, adm'.r, "", v, Nil, drv)
                   IN /\ ret.applied /\ ret.err = Nil
                      /\ QueryVersion(Apply(occ', ret), adm'.h, adm'.r) = v ]_vars

\* The only applied event stored v1; DeleteResource returned without error
\* and the record is gone.
C13_Witness ==
    /\ adm.op = "DeleteResource" /\ adm.err = Nil
    /\ appliedEv = SetToBag({Event(adm.h, adm.r, "", "v1")})
    /\ RowsOf(occ, adm.h, adm.r) = {}

\* ------------------------------------------------------------------ pairs

\* The records of the pair (h, r) in tbl.
RecordsOf(tbl, h, r) ==
    [x \in {y \in BagToSet(tbl) : y.handler = h /\ y.resource = r} |-> tbl[x]]

\* The pairs whose records this step changes.
ChangedPairs ==
    {p \in Handlers \X Resources : RecordsOf(occ', p[1], p[2]) # RecordsOf(occ, p[1], p[2])}

\* C14: the pairs are independent.  A StoreVersion, DeleteResource or
\* UpdateVersion on (h, r) changes the records of no other pair (the same
\* resource under another handler, another resource of the same handler),
\* what UpdateVersion returns is what it returns on the records of its own
\* pair alone, and QueryVersion changes no record.
C14_PairsIndependent ==
    [][ /\ \A op \in {"StoreVersion", "DeleteResource", "QueryVersion"} :
              AdminStep(op) => ChangedPairs \subseteq {<<adm'.h, adm'.r>>}
        /\ AdminStep("QueryVersion") => occ' = occ
        /\ \A t \in Txs :
              tx'[t] # tx[t] =>
                  IF tx[t].pc = "idle" THEN occ' = occ
                  ELSE ChangedPairs \subseteq {<<tx[t].h, tx[t].r>>}
        /\ \A t \in Txs :
              ExecStep(t) =>
                  \A fault \in DbOutcomes, drv \in Drivers :
                      UpdateVersion(occ, tx[t].h, tx[t].r, tx[t].c, tx[t].n, fault, drv)
                          = UpdateVersion(RecordsOf(occ, tx[t].h, tx[t].r),
                                          tx[t].h, tx[t].r, tx[t].c, tx[t].n, fault, drv) ]_vars

\* A swap was applied on one pair while the same resource holds a record
\* under the other handler.
C14_Witness ==
    \E x \in BagToSet(occ), y \in BagToSet(occ) :
        /\ x.resource = y.resource /\ x.handler # y.handler
        /\ \E e \in BagToSet(appliedEv) : e.h = x.handler /\ e.r = x.resource
        /\ \A e \in BagToSet(appliedEv) : ~(e.h = y.handler /\ e.r = y.resource)

\* -------------------------------------------------------- absent records

\* C15: an UpdateVersion with a non-empty current and a non-empty next on a
\* pair that has no record returns applied = false without error and creates
\* no record; a pair gets a record only from a swap whose current is empty,
\* or from StoreVersion.
C15_NoRecordFromNonEmptyCurrent ==
    [][ /\ \A t \in Txs :
              (/\ Executed(t)
               /\ tx[t].c # "" /\ tx[t].n # ""
               /\ RowsOf(occ, tx[t].h, tx[t].r) = {})
              => (~tx'[t].applied /\ tx'[t].err = Nil /\ Untouched(t))
        /\ \A h \in Handlers, r \in Resources :
              (RowsOf(occ, h, r) = {} /\ RowsOf(occ', h, r) # {})
              => \/ AdminStep("StoreVersion") /\ adm'.h = h /\ adm'.r = r
                 \/ \E t \in Txs : /\ tx[t].pc = "returned" /\ tx'[t].pc = "idle"
                                   /\ tx[t].h = h /\ tx[t].r = r /\ tx[t].c = "" ]_vars

\* No record was ever stored, and a swap from one non-empty token to another
\* returned not applied, without error.
C15_Witness ==
    /\ adm = NoAdm /\ appliedEv = EmptyBag /\ occ = EmptyBag
    /\ \E t \in Txs :
           /\ tx[t].pc = "returned" /\ tx[t].c # "" /\ tx[t].n # ""
           /\ ~tx[t].applied /\ tx[t].err = Nil

\* C16: StoreVersion(h, r, v) sets the version whatever the pair holds.
\* Once it returns without error QueryVersion returns v and the pair has
\* exactly one record; calling it again with the same v changes nothing.
C16_StoreVersionForceSet ==
    [][ (AdminStep("StoreVersion") /\ adm'.err = Nil) =>
            /\ QueryVersion(occ', adm'.h, adm'.r) = adm'.v
            /\ RecordsOf(occ', adm'.h, adm'.r) = SetToBag({Row(adm'.h, adm'.r, adm'.v)})
            /\ LET again == Upsert(occ', adm'.h, adm'.r, adm'.v, Nil)
               IN again.err = Nil /\ Apply(occ', again) = occ' ]_vars

\* The only applied event stored v1; StoreVersion(v2) returned without error
\* and the record holds v2.
C16_Witness ==
    /\ adm.op = "StoreVersion" /\ adm.err = Nil /\ adm.v = "v2"
    /\ appliedEv = SetToBag({Event(adm.h, adm.r, "", "v1")})
    /\ QueryVersion(occ, adm.h, adm.r) = "v2"

\* ---------------------------------------------------------------- options

\* The decorators field that belongs to a request, and the interfaces the
\* constructor of its option declares as result.
FieldOf(req) ==
    CASE req = "GetItem" -> "decorateGetItem"
      [] req = "PutItem" -> "decoratePutItem"
      [] req = "DeleteItem" -> "decorateDeleteItem"
      [] req = "TransactWriteItems" -> "decorateTransactWriteItems"
      [] req = "CreateTable" -> "decorateCreateTableItem"
      [] req = "DeleteTable" -> "decorateDeleteTableItem"

ItemRequests == {"GetItem", "PutItem", "DeleteItem", "TransactWriteItems"}

DeclaredFor(req) ==
    IF req \in ItemRequests THEN {"HandlerOption", "ResourceRepositoryOption"}
    ELSE {"TableOption"}

\* This step applies the option WithDecorate<req>(dec) through iface.
Applies(iface, req, dec) ==
    options' = Append(options, [iface |-> iface, req |-> req, dec |-> dec])

\* C17: the option of WithDecorateGetItem, WithDecoratePutItem,
\* WithDecorateDeleteItem or WithDecorateTransactWriteItems, applied as a
\* HandlerOption, installs its decorator in the handler's decorators.
C17_HandlerOptionInstallsDecorator ==
    [][ \A req \in ItemRequests, dec \in Decs :
            Applies("HandlerOption", req, dec) => decorators'[FieldOf(req)] = dec ]_vars

\* The decorator of the last option of the request that was applied through
\* an interface its constructor declares; Unset when there is none.
RECURSIVE LastApplied(_, _)
LastApplied(req, opts) ==
    IF opts = <<>> THEN Unset
    ELSE LET o == opts[Len(opts)]
         IN IF o.req = req /\ o.iface \in DeclaredFor(req) THEN o.dec
            ELSE LastApplied(req, SubSeq(opts, 1, Len(opts) - 1))

\* C18: each option sets its own decorator field only and leaves the five
\* others as they are; after any sequence of options each field holds the
\* decorator of the last option applied for its request, or is unset; an
\* option applied through an interface it has no setter for changes nothing.
C18_EachOptionItsOwnField ==
    [][ \A iface \in Interfaces, req \in Requests, dec \in Decs :
            Applies(iface, req, dec) =>
                /\ \A f \in DecoratorFields \ {FieldOf(req)} : decorators'[f] = decorators[f]
                /\ iface \notin DeclaredFor(req) => decorators' = decorators
                /\ \A q \in Requests : decorators'[FieldOf(q)] = LastApplied(q, options') ]_vars

\* ------------------------------------------------------------ error paths

\* C19: UpdateVersion never returns applied = true together with an error;
\* a call that returns an error returns applied = false and leaves the
\* record as it was.
C19_NoAppliedWithError ==
    [][ \A t \in Txs :
            (ExecStep(t) /\ tx'[t].err # Nil) => (~tx'[t].applied /\ Untouched(t)) ]_vars

====
